---- MODULE Spec2Model ----
(***************************************************************************)
(* Reactive autoscaler: the decision engine (exponential smoothing,        *)
(* hysteresis target, cooldown gate) of src/reactivemodel.py (batch        *)
(* replay) and src/reactive.py (live control loop), and the two drivers.   *)
(*                                                                         *)
(* Rates are Python floats in the source.  Here a rate is an integer       *)
(* number of 1/Scale requests per second, with Scale a power of ten large  *)
(* enough that every exponential-moving-average step of a bounded run is   *)
(* exact.  Thresholds are extended by float('inf').                        *)
(***************************************************************************)
EXTENDS Integers, Sequences, FiniteSets, TLC

\* ------------------------------------------------------------------ bounds

\* Rows of `grouped` a batch run processes.
MaxRows == 4

\* process_service calls of a live run.
MaxCalls == 2

\* Time buckets 0, 30, ..., 30 * MaxBucket of a batch run.
MaxBucket == 4

\* Largest replica count the control plane reports.
MaxK8sReplicas == 6

\* time.time() when the live driver starts.
EpochNow == 1000

Services == {"a", "b"}

\* Raw request rates (requests per second) the drivers observe.
RawRates == {0, 15, 120}

RECURSIVE Pow10(_)
Pow10(n) == IF n <= 0 THEN 1 ELSE 10 * Pow10(n - 1)

\* Samples fed to the engine in one run; each needs one decimal digit.
MaxSamples == IF MaxRows >= MaxCalls THEN MaxRows ELSE MaxCalls

\* One request per second, in rate units.
Scale == Pow10(MaxSamples - 1)

\* A whole number of requests per second as a rate.
AsRate(n) == n * Scale

\* ------------------------------------------- configuration, reactivemodel.py

CONTROL_INTERVAL == 30
COOLDOWN_PERIOD == 60
EMA_ALPHA_NUM == 7
EMA_ALPHA_DEN == 10
MIN_REPLICAS == 1
MAX_REPLICAS == 10

\* A threshold: a finite number of requests per second, or float('inf').
Fin(n) == [inf |-> FALSE, v |-> n]
Inf == [inf |-> TRUE, v |-> 0]

\* replicas -> <<scale_up_threshold, scale_down_threshold>>
RPS_THRESHOLDS ==
    (1 :> <<Fin(10), Fin(0)>>) @@ (2 :> <<Fin(30), Fin(8)>>) @@
    (3 :> <<Fin(60), Fin(25)>>) @@ (4 :> <<Fin(100), Fin(50)>>) @@
    (5 :> <<Inf, Fin(90)>>)

\* ------------------------------------ configuration, reactive.py (the class)

Config_METRICS_QUERY_INTERVAL == 30
Config_COOLDOWN_PERIOD == 60
Config_EMA_ALPHA_NUM == 7
Config_EMA_ALPHA_DEN == 10
Config_MIN_REPLICAS == 1
Config_MAX_REPLICAS == 10

Config_RPS_THRESHOLDS ==
    (1 :> <<Fin(10), Fin(0)>>) @@ (2 :> <<Fin(30), Fin(8)>>) @@
    (3 :> <<Fin(60), Fin(25)>>) @@ (4 :> <<Fin(100), Fin(50)>>) @@
    (5 :> <<Inf, Fin(90)>>)

\* ------------------------------------------------------- float comparisons

\* `>` written for `>=`
GE_Strict(x, t) == IF t.inf THEN FALSE ELSE x > AsRate(t.v)

\* smoothed_rps >= threshold
GE(x, t) == IF t.inf THEN FALSE ELSE x >= AsRate(t.v)

\* smoothed_rps < threshold
LT(x, t) == IF t.inf THEN TRUE ELSE x < AsRate(t.v)

\* ------------------------------------------------- results of a table lookup

\* RPS_THRESHOLDS[r] with r not a key of the table raises KeyError.
KeyError == [raised |-> TRUE, value |-> 0]
Return(r) == [raised |-> FALSE, value |-> r]

\* --------------------------------------------- engine of reactivemodel.py

\* the filter with the weights of the sample and of the previous value swapped
Ema_Swapped(num, den, new_rps, previous) == ((den - num) * new_rps + num * previous) \div den

\* EMA = alpha * current + (1 - alpha) * previous, exactly
Ema(num, den, new_rps, previous) == (num * new_rps + (den - num) * previous) \div den

\* update_smoothed_rps without its first-sample case: the filter starts from 0
update_smoothed_rps_FromZero(state, new_rps) ==
    [state EXCEPT
        !.smoothed_rps = Ema(EMA_ALPHA_NUM, EMA_ALPHA_DEN, new_rps, state.smoothed_rps),
        !.raw_rps = new_rps]

update_smoothed_rps(state, new_rps) ==
    [state EXCEPT
        !.smoothed_rps = IF state.smoothed_rps = 0 THEN new_rps
                         ELSE Ema(EMA_ALPHA_NUM, EMA_ALPHA_DEN, new_rps, state.smoothed_rps),
        !.raw_rps = new_rps]

\* the scan stops at the first level above the current one
ScanUp_OneLevel(replicas, smoothed_rps) == Return(replicas)

RECURSIVE ScanUp(_, _)
ScanUp(replicas, smoothed_rps) ==
    IF replicas > MAX_REPLICAS THEN Return(MAX_REPLICAS)
    ELSE IF replicas \notin DOMAIN RPS_THRESHOLDS THEN KeyError
    ELSE IF LT(smoothed_rps, RPS_THRESHOLDS[replicas][1]) THEN Return(replicas)
    ELSE ScanUp(replicas + 1, smoothed_rps)

\* the scan down stops where the rate is below the level's threshold
RECURSIVE ScanDown_Reversed(_, _)
ScanDown_Reversed(replicas, smoothed_rps) ==
    IF replicas < MIN_REPLICAS THEN Return(MIN_REPLICAS)
    ELSE IF replicas \notin DOMAIN RPS_THRESHOLDS THEN KeyError
    ELSE IF LT(smoothed_rps, RPS_THRESHOLDS[replicas][2]) \/ replicas = MIN_REPLICAS
         THEN Return(replicas)
    ELSE ScanDown_Reversed(replicas - 1, smoothed_rps)

RECURSIVE ScanDown(_, _)
ScanDown(replicas, smoothed_rps) ==
    IF replicas < MIN_REPLICAS THEN Return(MIN_REPLICAS)
    ELSE IF replicas \notin DOMAIN RPS_THRESHOLDS THEN KeyError
    ELSE IF GE(smoothed_rps, RPS_THRESHOLDS[replicas][2]) \/ replicas = MIN_REPLICAS
         THEN Return(replicas)
    ELSE ScanDown(replicas - 1, smoothed_rps)

\* one threshold for both directions: scale down below the scale-up threshold
desired_replicas_NoHysteresis(current_replicas, smoothed_rps) ==
    IF current_replicas \notin DOMAIN RPS_THRESHOLDS THEN KeyError
    ELSE LET scale_up_threshold == RPS_THRESHOLDS[current_replicas][1]
         IN  IF GE(smoothed_rps, scale_up_threshold) /\ current_replicas < MAX_REPLICAS
                 THEN ScanUp(current_replicas + 1, smoothed_rps)
             ELSE IF LT(smoothed_rps, scale_up_threshold) /\ current_replicas > MIN_REPLICAS
                 THEN ScanDown(current_replicas - 1, smoothed_rps)
             ELSE Return(current_replicas)

desired_replicas_with_hysteresis(current_replicas, smoothed_rps) ==
    IF current_replicas \notin DOMAIN RPS_THRESHOLDS THEN KeyError
    ELSE LET scale_up_threshold == RPS_THRESHOLDS[current_replicas][1]
             scale_down_threshold == RPS_THRESHOLDS[current_replicas][2]
         IN  IF GE(smoothed_rps, scale_up_threshold) /\ current_replicas < MAX_REPLICAS
                 THEN ScanUp(current_replicas + 1, smoothed_rps)
             ELSE IF LT(smoothed_rps, scale_down_threshold) /\ current_replicas > MIN_REPLICAS
                 THEN ScanDown(current_replicas - 1, smoothed_rps)
             ELSE Return(current_replicas)

\* the gate without its no-change case
should_scale_AlwaysTimed(state, current_time, desired) ==
    LET time_since_last_scale == current_time - state.last_scale_time
    IN  ~(time_since_last_scale < COOLDOWN_PERIOD)

\* the gate without the cooldown check
should_scale_NoCooldown(state, current_time, desired) == TRUE

\* should_scale with `<=` in place of `<`: a cooldown that has just elapsed blocks
should_scale_Inclusive(state, current_time, desired) ==
    IF desired = state.current_replicas THEN TRUE
    ELSE LET time_since_last_scale == current_time - state.last_scale_time
         IN  ~(time_since_last_scale <= COOLDOWN_PERIOD)

should_scale(state, current_time, desired) ==
    IF desired = state.current_replicas THEN TRUE
    ELSE LET time_since_last_scale == current_time - state.last_scale_time
         IN  ~(time_since_last_scale < COOLDOWN_PERIOD)

\* ------------------------------- engine of reactive.py, ReactiveScalingEngine

\* update_smoothed_rps that takes every sample as it is
Engine_update_smoothed_rps_Unsmoothed(state, new_rps) ==
    [state EXCEPT !.smoothed_rps = new_rps, !.raw_rps = new_rps]

Engine_update_smoothed_rps(state, new_rps) ==
    [state EXCEPT
        !.smoothed_rps = IF state.smoothed_rps = 0 THEN new_rps
                         ELSE Ema(Config_EMA_ALPHA_NUM, Config_EMA_ALPHA_DEN, new_rps,
                                  state.smoothed_rps),
        !.raw_rps = new_rps]

RECURSIVE Engine_ScanUp(_, _)
Engine_ScanUp(replicas, smoothed_rps) ==
    IF replicas > Config_MAX_REPLICAS THEN Return(Config_MAX_REPLICAS)
    ELSE IF replicas \notin DOMAIN Config_RPS_THRESHOLDS THEN KeyError
    ELSE IF LT(smoothed_rps, Config_RPS_THRESHOLDS[replicas][1]) THEN Return(replicas)
    ELSE Engine_ScanUp(replicas + 1, smoothed_rps)

\* the scan down stops at the first level below the current one
Engine_ScanDown_OneLevel(replicas, smoothed_rps) == Return(replicas)

RECURSIVE Engine_ScanDown(_, _)
Engine_ScanDown(replicas, smoothed_rps) ==
    IF replicas < Config_MIN_REPLICAS THEN Return(Config_MIN_REPLICAS)
    ELSE IF replicas \notin DOMAIN Config_RPS_THRESHOLDS THEN KeyError
    ELSE IF GE(smoothed_rps, Config_RPS_THRESHOLDS[replicas][2])
            \/ replicas = Config_MIN_REPLICAS
         THEN Return(replicas)
    ELSE Engine_ScanDown(replicas - 1, smoothed_rps)

desired_replicas(current_replicas, smoothed_rps) ==
    IF current_replicas \notin DOMAIN Config_RPS_THRESHOLDS THEN KeyError
    ELSE LET scale_up_threshold == Config_RPS_THRESHOLDS[current_replicas][1]
             scale_down_threshold == Config_RPS_THRESHOLDS[current_replicas][2]
         IN  IF GE(smoothed_rps, scale_up_threshold)
                /\ current_replicas < Config_MAX_REPLICAS
                 THEN Engine_ScanUp(current_replicas + 1, smoothed_rps)
             ELSE IF LT(smoothed_rps, scale_down_threshold)
                     /\ current_replicas > Config_MIN_REPLICAS
                 THEN Engine_ScanDown(current_replicas - 1, smoothed_rps)
             ELSE Return(current_replicas)

\* should_scale with `<=` in place of `<`
Engine_should_scale_Inclusive(state, current_time, desired) ==
    IF desired = state.current_replicas THEN TRUE
    ELSE LET time_since_last_scale == current_time - state.last_scale_time
         IN  ~(time_since_last_scale <= Config_COOLDOWN_PERIOD)

\* current_time is the value time.time() returns inside the call
Engine_should_scale(state, current_time, desired) ==
    IF desired = state.current_replicas THEN TRUE
    ELSE LET time_since_last_scale == current_time - state.last_scale_time
         IN  ~(time_since_last_scale < Config_COOLDOWN_PERIOD)

\* ------------------------------------------------------------------- state

VARIABLES
    driver,          \* "batch": reactivemodel.main runs; "live": reactive.main runs;
                     \* "target", "smoothing": an engine function is applied to inputs;
                     \* "retry": process_service is applied to one service again and again;
                     \* "aggregate": reactivemodel.main runs on a CSV file;
                     \* "lockstep": both drivers step on the same inputs
    pc,              \* position of the driver
    service_states,  \* service_states: the services seen so far -> ServiceState
    events,          \* batch: the result rows emitted so far
    stats,           \* batch: total_scales, upscales, downscales, cooldown_blocks
    clock,           \* live: the wall clock
    k8s,             \* live: deployment.spec.replicas in the control plane
    loop_start,      \* live: time.time() at the start of this iteration
    queue,           \* live: the services of this iteration not yet processed
    calls,           \* live: the number of process_service calls so far
    last_call,       \* what the last engine invocation read, decided and did
    applied_times,   \* per service, the values written to last_scale_time
    probe            \* the inputs and results of an engine function applied alone

vars == <<driver, pc, service_states, events, stats, clock, k8s, loop_start, queue,
          calls, last_call, applied_times, probe>>

batch_vars == <<events, stats>>
live_vars == <<clock, k8s, loop_start, queue, calls>>

\* Optional[...]: None, or a value
None == <<>>
Some(x) == <<x>>

\* dataclass ServiceState of reactivemodel.py
ServiceState ==
    [current_replicas |-> 1, raw_rps |-> 0, smoothed_rps |-> 0,
     last_scale_time |-> 0, scale_history |-> <<>>]

\* dataclass ServiceState of reactive.py
Live_ServiceState(service_name) ==
    [service_name |-> service_name, current_replicas |-> 1, raw_rps |-> 0,
     smoothed_rps |-> 0, last_scale_time |-> 0, scale_history |-> <<>>]

\* d[key] = value on a mapping whose keys all name one and the same object
Store_Shared(d, key, value) == [k \in DOMAIN d \cup {key} |-> value]

\* defaultdict: d[key], and the mapping once d[key] has been evaluated
Lookup(d, key, default) == IF key \in DOMAIN d THEN d[key] ELSE default
Store(d, key, value) == [k \in DOMAIN d \cup {key} |-> IF k = key THEN value ELSE d[k]]

Buckets == {CONTROL_INTERVAL * k : k \in 0..MaxBucket}
ItemOrder == ("a" :> 1) @@ ("b" :> 2)

\* rows of `grouped` are sorted by (time_bucket, item), one row per pair
After(time_bucket, item, rows) ==
    \/ rows = <<>>
    \/ /\ rows # <<>>
       /\ LET last == rows[Len(rows)]
          IN  \/ time_bucket > last.time_bucket
              \/ /\ time_bucket = last.time_bucket
                 /\ ItemOrder[item] > ItemOrder[last.service]

InitCommon ==
    /\ service_states = <<>>
    /\ events = <<>>
    /\ stats = [total_scales |-> 0, upscales |-> 0, downscales |-> 0, cooldown_blocks |-> 0]
    /\ queue = <<>>
    /\ calls = 0
    /\ last_call = [outcome |-> "none"]
    /\ applied_times = [s \in Services |-> <<>>]

InitDriver ==
    /\ InitCommon
    /\ probe = [applied |-> FALSE]

InitBatch ==
    /\ driver = "batch"
    /\ pc = "loop"
    /\ clock = 0
    /\ loop_start = 0
    /\ k8s = [s \in Services |-> 1]
    /\ InitDriver

\* --------------------------------------------- reactivemodel.py, main

\* the loop body with `total_scales += 1` missing from its DOWNSCALE branch
count_total_scales_UpscalesOnly(total_scales, action) ==
    total_scales + IF action = "UPSCALE" THEN 1 ELSE 0

\* `total_scales += 1` in the UPSCALE and the DOWNSCALE branch of the loop body
count_total_scales(total_scales, action) ==
    total_scales + IF action \in {"UPSCALE", "DOWNSCALE"} THEN 1 ELSE 0

\* one iteration of `for _, row in grouped.iterrows()`
BatchRow(time_bucket, service, raw_rps) ==
    /\ driver = "batch" /\ pc = "loop"
    /\ Len(events) < MaxRows
    /\ After(time_bucket, service, events)
    /\ LET state == Lookup(service_states, service, ServiceState)
           s1 == update_smoothed_rps(state, raw_rps)
           smoothed_rps == s1.smoothed_rps
           d == desired_replicas_with_hysteresis(s1.current_replicas, smoothed_rps)
       IN  IF d.raised
           THEN \* KeyError leaves main
                /\ pc' = "raised"
                /\ service_states' = Store(service_states, service, s1)
                /\ last_call' = [service |-> service, desired |-> None,
                                 can_scale |-> None, outcome |-> "raised"]
                /\ UNCHANGED <<events, stats, applied_times>>
           ELSE LET desired == d.value
                    can_scale == should_scale(s1, time_bucket, desired)
                    prev_replicas == s1.current_replicas
                    action == IF desired > prev_replicas
                                  THEN IF can_scale THEN "UPSCALE" ELSE "BLOCKED"
                              ELSE IF desired < prev_replicas
                                  THEN IF can_scale THEN "DOWNSCALE" ELSE "BLOCKED"
                              ELSE "NO_CHANGE"
                    scaled == action \in {"UPSCALE", "DOWNSCALE"}
                    s2 == IF scaled
                          THEN [s1 EXCEPT !.current_replicas = desired,
                                          !.last_scale_time = time_bucket]
                          ELSE s1
                    s3 == [s2 EXCEPT !.scale_history =
                              Append(@, <<time_bucket, s2.current_replicas, smoothed_rps>>)]
                IN  /\ pc' = pc
                    /\ service_states' = Store(service_states, service, s3)
                    /\ last_call' = [service |-> service, desired |-> Some(desired),
                                     can_scale |-> Some(can_scale), outcome |-> action]
                    /\ stats' =
                         [total_scales |-> count_total_scales(stats.total_scales, action),
                          upscales |-> stats.upscales + IF action = "UPSCALE" THEN 1 ELSE 0,
                          downscales |-> stats.downscales
                                           + IF action = "DOWNSCALE" THEN 1 ELSE 0,
                          cooldown_blocks |-> stats.cooldown_blocks
                                           + IF action = "BLOCKED" THEN 1 ELSE 0]
                    /\ events' = Append(events,
                         [time_bucket |-> time_bucket, service |-> service,
                          raw_rps |-> raw_rps, smoothed_rps |-> smoothed_rps,
                          prev_replicas |-> prev_replicas,
                          new_replicas |-> s3.current_replicas, action |-> action])
                    /\ applied_times' =
                         IF scaled
                         THEN [applied_times EXCEPT ![service] = Append(@, time_bucket)]
                         ELSE applied_times
    /\ UNCHANGED <<driver, live_vars, probe>>

\* `grouped` is exhausted: the results are saved and the summary printed
BatchFinish ==
    /\ driver = "batch" /\ pc = "loop"
    /\ pc' = "done"
    /\ UNCHANGED <<driver, service_states, events, stats, live_vars, last_call,
                   applied_times, probe>>

NextBatch ==
    \/ \E time_bucket \in Buckets, service \in Services, r \in RawRates :
          BatchRow(time_bucket, service, AsRate(r))
    \/ BatchFinish

SpecBatch == InitBatch /\ [][NextBatch]_vars

\* ------------------------------------------ reactive.py, LiveReactiveAutoscaler

\* process_service without its line `state.current_replicas = current_k8s_replicas`
sync_with_k8s_Cached(state, current_k8s_replicas) == state

\* process_service, "Sync state with K8s reality"
sync_with_k8s(state, current_k8s_replicas) ==
    [state EXCEPT !.current_replicas = current_k8s_replicas]

\* what KubernetesScaler.list_deployments can return: the deployments' names
Listings == {<<>>} \cup {<<s>> : s \in Services}
            \cup {l \in {<<s, t>> : s \in Services, t \in Services} : l[1] # l[2]}

\* replica counts somebody else sets: none, even counts in the threshold
\* table, and one beyond the table
ExternalReplicas == {0, 2, 4, MaxK8sReplicas}

\* seconds that pass between two clock reads of one process_service call
Delays == {0, Config_METRICS_QUERY_INTERVAL}

\* a live run lasts long enough for a cooldown to expire
Horizon == EpochNow + Config_COOLDOWN_PERIOD

Max(a, b) == IF a >= b THEN a ELSE b

InitLive ==
    /\ driver = "live"
    /\ pc = "idle"
    /\ clock = EpochNow
    /\ loop_start = EpochNow
    /\ k8s = [s \in Services |-> Config_MIN_REPLICAS]
    /\ InitDriver

\* run: loop_start = time.time(); control_loop_iteration up to its for loop
LiveIterate(services) ==
    /\ driver = "live" /\ pc = "idle"
    /\ calls < MaxCalls
    /\ loop_start' = clock
    /\ queue' = services
    /\ pc' = "iterating"
    /\ UNCHANGED <<driver, service_states, batch_vars, clock, k8s, calls, last_call,
                   applied_times, probe>>

\* process_service(service) for the next service of the for loop, with the
\* try/except of control_loop_iteration around it.
\*   rps        what prometheus.get_rps returns (None or a rate)
\*   lookup_ok  whether k8s.get_current_replicas succeeds
\*   scale_ok   whether k8s.scale_deployment succeeds, when it is called
\*   delay      the time that passes between the clock read of should_scale and
\*              the clock read that sets last_scale_time
LiveProcess(rps, lookup_ok, scale_ok, delay) ==
    /\ driver = "live" /\ pc = "iterating" /\ queue # <<>>
    /\ calls < MaxCalls
    /\ clock + delay <= Horizon
    /\ LET service == Head(queue)
           before == Lookup(service_states, service, Live_ServiceState(""))
           state == [before EXCEPT !.service_name = service]
           s1 == Engine_update_smoothed_rps(state, rps[1])
           smoothed_rps == s1.smoothed_rps
           current_k8s_replicas == IF lookup_ok THEN Some(k8s[service]) ELSE None
           s2 == sync_with_k8s(s1, current_k8s_replicas[1])
           d == desired_replicas(s2.current_replicas, smoothed_rps)
           desired == d.value
           now1 == clock
           now2 == now1 + delay
           can_scale == Engine_should_scale(s2, now1, desired)
           action == IF desired > s2.current_replicas THEN "UPSCALE" ELSE "DOWNSCALE"
           s3 == [s2 EXCEPT !.current_replicas = desired,
                            !.last_scale_time = now2,
                            !.scale_history =
                                Append(@, [action |-> action, from |-> current_k8s_replicas[1],
                                           to |-> desired, rps |-> smoothed_rps])]
           report(outcome, d_or_none, gate, actuated) ==
               [service |-> service, rps |-> rps, read |-> current_k8s_replicas,
                desired |-> d_or_none, can_scale |-> gate, outcome |-> outcome,
                actuated |-> actuated]
       IN  IF rps = None
           THEN /\ service_states' = Store(service_states, service, state)
                /\ last_call' = report("no_rps", None, None, FALSE)
                /\ UNCHANGED <<clock, k8s, applied_times>>
           ELSE IF current_k8s_replicas = None
           THEN /\ service_states' = Store(service_states, service, s1)
                /\ last_call' = report("no_replicas", None, None, FALSE)
                /\ UNCHANGED <<clock, k8s, applied_times>>
           ELSE IF d.raised
           THEN \* KeyError, caught and logged by control_loop_iteration
                /\ service_states' = Store(service_states, service, s2)
                /\ last_call' = report("raised", None, None, FALSE)
                /\ UNCHANGED <<clock, k8s, applied_times>>
           ELSE IF desired = s2.current_replicas
           THEN /\ service_states' = Store(service_states, service, s2)
                /\ last_call' = report("NO_CHANGE", Some(desired), Some(can_scale), FALSE)
                /\ UNCHANGED <<clock, k8s, applied_times>>
           ELSE IF ~can_scale
           THEN /\ service_states' = Store(service_states, service, s2)
                /\ last_call' = report("BLOCKED", Some(desired), Some(can_scale), FALSE)
                /\ UNCHANGED <<clock, k8s, applied_times>>
           ELSE IF ~scale_ok
           THEN /\ service_states' = Store(service_states, service, s2)
                /\ last_call' = report("scale_failed", Some(desired), Some(can_scale), TRUE)
                /\ UNCHANGED <<clock, k8s, applied_times>>
           ELSE /\ service_states' = Store(service_states, service, s3)
                /\ last_call' = report(action, Some(desired), Some(can_scale), TRUE)
                /\ k8s' = [k8s EXCEPT ![service] = desired]
                /\ applied_times' = [applied_times EXCEPT ![service] = Append(@, now2)]
                /\ clock' = now2
    /\ queue' = Tail(queue)
    /\ calls' = calls + 1
    /\ UNCHANGED <<driver, pc, batch_vars, loop_start, probe>>

\* run: the for loop is over; sleep max(0, interval - elapsed)
LiveSleep ==
    /\ driver = "live" /\ pc = "iterating" /\ queue = <<>>
    /\ Max(clock, loop_start + Config_METRICS_QUERY_INTERVAL) <= Horizon
    /\ clock' = Max(clock, loop_start + Config_METRICS_QUERY_INTERVAL)
    /\ pc' = "idle"
    /\ UNCHANGED <<driver, service_states, batch_vars, k8s, loop_start, queue, calls,
                   last_call, applied_times, probe>>

\* Somebody else changes the replica count of a deployment.  Only the last
\* change before the driver reads the count matters, so changes are taken for
\* the deployment the driver is about to process.
ExternalScale(service, replicas) ==
    /\ driver = "live" /\ pc = "iterating" /\ queue # <<>>
    /\ service = Head(queue)
    /\ calls < MaxCalls
    /\ k8s[service] # replicas
    /\ k8s' = [k8s EXCEPT ![service] = replicas]
    /\ UNCHANGED <<driver, pc, service_states, batch_vars, clock, loop_start, queue,
                   calls, last_call, applied_times, probe>>

NextLive ==
    \/ \E services \in Listings : LiveIterate(services)
    \/ \E rps \in {None} \cup {Some(AsRate(r)) : r \in RawRates}, lookup_ok \in BOOLEAN,
          scale_ok \in BOOLEAN, delay \in Delays :
          LiveProcess(rps, lookup_ok, scale_ok, delay)
    \/ LiveSleep
    \/ \E service \in Services, replicas \in ExternalReplicas : ExternalScale(service, replicas)

SpecLive == InitLive /\ [][NextLive]_vars

\* -------------------------------------------- the engine functions alone

driver_vars == <<pc, service_states, batch_vars, live_vars, last_call, applied_times>>

InitIdle ==
    /\ pc = "idle"
    /\ clock = 0
    /\ loop_start = 0
    /\ k8s = [s \in Services |-> 1]
    /\ InitCommon

\* the thresholds of the table, in requests per second
ThresholdValues == {0, 8, 10, 25, 30, 50, 60, 90, 100}

\* rates at, just below and just above every threshold, and one beyond them all
TargetRates ==
    {x \in {AsRate(t) + e : t \in ThresholdValues, e \in {0 - 1, 0, 1}} : x >= 0}
    \cup {AsRate(150)}

\* replica counts from below MIN_REPLICAS to above MAX_REPLICAS
TargetReplicas == 0..(MAX_REPLICAS + 1)

InitTarget ==
    /\ driver = "target"
    /\ InitIdle
    /\ \E c \in TargetReplicas, x \in TargetRates, y \in TargetRates :
          probe = [applied |-> FALSE, current_replicas |-> c, x |-> x, y |-> y]

\* both target computations, applied to (current_replicas, x) and (current_replicas, y)
ApplyTarget ==
    /\ driver = "target" /\ ~probe.applied
    /\ probe' = [probe EXCEPT
          !.applied = TRUE] @@
          [batch_x |-> desired_replicas_with_hysteresis(probe.current_replicas, probe.x),
           batch_y |-> desired_replicas_with_hysteresis(probe.current_replicas, probe.y),
           live_x |-> desired_replicas(probe.current_replicas, probe.x),
           live_y |-> desired_replicas(probe.current_replicas, probe.y)]
    /\ UNCHANGED <<driver, driver_vars>>

\* both target computations once more, for the counts they returned for x and
\* the same rate x
ApplyTargetAgain ==
    /\ driver = "target" /\ probe.applied
    /\ "batch_again" \notin DOMAIN probe
    /\ ~probe.batch_x.raised /\ ~probe.live_x.raised
    /\ probe' = probe @@
          [batch_again |-> desired_replicas_with_hysteresis(probe.batch_x.value, probe.x),
           live_again |-> desired_replicas(probe.live_x.value, probe.x)]
    /\ UNCHANGED <<driver, driver_vars>>

NextTarget == ApplyTarget \/ ApplyTargetAgain

SpecTarget == InitTarget /\ [][NextTarget]_vars

\* samples fed to the smoothing update
SmoothingRates == {0, 2, 5, 15}

InitSmoothing ==
    /\ driver = "smoothing"
    /\ InitIdle
    /\ probe = [applied |-> FALSE, batch |-> ServiceState, live |-> Live_ServiceState(""),
                fed |-> <<>>]

\* both smoothing updates, applied to one more sample
Feed(new_rps) ==
    /\ driver = "smoothing"
    /\ Len(probe.fed) < MaxSamples
    /\ LET batch == update_smoothed_rps(probe.batch, new_rps)
           live == Engine_update_smoothed_rps(probe.live, new_rps)
       IN  probe' = [applied |-> TRUE, batch |-> batch, live |-> live,
                     fed |-> Append(probe.fed,
                                    [sample |-> new_rps, batch |-> batch.smoothed_rps,
                                     live |-> live.smoothed_rps])]
    /\ UNCHANGED <<driver, driver_vars>>

NextSmoothing == \E r \in SmoothingRates : Feed(AsRate(r))

SpecSmoothing == InitSmoothing /\ [][NextSmoothing]_vars

\* --------------------------------- the drivers' steps on one service's state

\* process_service after scale_deployment returned False: nothing is assigned
after_failed_scale_StartsCooldown(state, later) == [state EXCEPT !.last_scale_time = later]

after_failed_scale(state, later) == state

\* process_service(service) as a function of the service's state and of what
\* the calls it makes return:
\*   rps                   what prometheus.get_rps returns (None or a rate)
\*   current_k8s_replicas  what k8s.get_current_replicas returns (None or a count)
\*   success               what k8s.scale_deployment returns, when it is called
\*   now, later            what time.time() returns in should_scale and when
\*                         last_scale_time is assigned
process_service(before, service, rps, current_k8s_replicas, success, now, later) ==
    LET state == [before EXCEPT !.service_name = service]
        s1 == Engine_update_smoothed_rps(state, rps[1])
        smoothed_rps == s1.smoothed_rps
        s2 == sync_with_k8s(s1, current_k8s_replicas[1])
        d == desired_replicas(s2.current_replicas, smoothed_rps)
        desired == d.value
        can_scale == Engine_should_scale(s2, now, desired)
        action == IF desired > s2.current_replicas THEN "UPSCALE" ELSE "DOWNSCALE"
        s3 == [s2 EXCEPT !.current_replicas = desired,
                         !.last_scale_time = later,
                         !.scale_history =
                             Append(@, [action |-> action, from |-> current_k8s_replicas[1],
                                        to |-> desired, rps |-> smoothed_rps])]
        result(after, outcome, d_or_none, gate, actuated) ==
            [state |-> after, outcome |-> outcome, desired |-> d_or_none,
             can_scale |-> gate, actuated |-> actuated]
    IN  IF rps = None THEN result(state, "no_rps", None, None, FALSE)
        ELSE IF current_k8s_replicas = None
            THEN result(s1, "no_replicas", None, None, FALSE)
        ELSE IF d.raised THEN result(s2, "raised", None, None, FALSE)
        ELSE IF desired = s2.current_replicas
            THEN result(s2, "NO_CHANGE", Some(desired), Some(can_scale), FALSE)
        ELSE IF ~can_scale
            THEN result(s2, "BLOCKED", Some(desired), Some(can_scale), FALSE)
        ELSE IF ~success
            THEN result(after_failed_scale(s2, later), "scale_failed", Some(desired),
                        Some(can_scale), TRUE)
        ELSE result(s3, action, Some(desired), Some(can_scale), TRUE)

\* the body of `for _, row in grouped.iterrows()` as a function of the
\* service's state and of the row; the table of this file has an entry for
\* every count the loop itself can reach
main_row(state, time_bucket, raw_rps) ==
    LET s1 == update_smoothed_rps(state, raw_rps)
        smoothed_rps == s1.smoothed_rps
        desired == desired_replicas_with_hysteresis(s1.current_replicas, smoothed_rps).value
        can_scale == should_scale(s1, time_bucket, desired)
        prev_replicas == s1.current_replicas
        action == IF desired > prev_replicas
                      THEN IF can_scale THEN "UPSCALE" ELSE "BLOCKED"
                  ELSE IF desired < prev_replicas
                      THEN IF can_scale THEN "DOWNSCALE" ELSE "BLOCKED"
                  ELSE "NO_CHANGE"
        s2 == IF action \in {"UPSCALE", "DOWNSCALE"}
              THEN [s1 EXCEPT !.current_replicas = desired,
                              !.last_scale_time = time_bucket]
              ELSE s1
        s3 == [s2 EXCEPT !.scale_history =
                  Append(@, <<time_bucket, s2.current_replicas, smoothed_rps>>)]
    IN  [state |-> s3, outcome |-> action, desired |-> Some(desired),
         can_scale |-> Some(can_scale)]

\* ---------------------------------- process_service, called again and again

\* process_service calls of one service in a row
MaxSteps == 3

\* rates the metrics source reports, in requests per second
RetryRates == {5, 30}

\* counts the control plane reports
RetryReplicas == {1, 4}

\* seconds from one process_service call of the service to its next one: the
\* loop's interval, or two of them
RetryIntervals == {Config_METRICS_QUERY_INTERVAL, 2 * Config_METRICS_QUERY_INTERVAL}

InitRetry ==
    /\ driver = "retry"
    /\ InitIdle
    /\ probe = [applied |-> FALSE, state |-> Live_ServiceState(""), now |-> EpochNow,
                trace |-> <<>>]

\* one more process_service("a"), `interval` after the one before, with the
\* rate and the count it reads and the result of scale_deployment
Attempt(rps, read, success, interval) ==
    /\ driver = "retry"
    /\ Len(probe.trace) < MaxSteps
    /\ LET now == probe.now + interval
           call == process_service(probe.state, "a", Some(rps), Some(read), success,
                                   now, now)
       IN  probe' = [applied |-> TRUE, state |-> call.state, now |-> now,
                     trace |-> Append(probe.trace,
                        [rps |-> rps, read |-> read, now |-> now, before |-> probe.state,
                         after |-> call.state, outcome |-> call.outcome,
                         desired |-> call.desired, can_scale |-> call.can_scale,
                         actuated |-> call.actuated])]
    /\ UNCHANGED <<driver, driver_vars>>

NextRetry ==
    \E r \in RetryRates, read \in RetryReplicas, success \in BOOLEAN,
       interval \in RetryIntervals :
        Attempt(AsRate(r), read, success, interval)

SpecRetry == InitRetry /\ [][NextRetry]_vars

\* ----------------------------- reactivemodel.py, main: from the CSV to `grouped`

\* Rows of the CSV file.
MaxCsvRows == 3

\* the timestamp column: seconds, in the first two control intervals
Timestamps == {10, 29, 40}

\* the request_rate column: requests per second, or a cell that is no number
CsvRates == {None, Some(AsRate(5)), Some(AsRate(15))}

CsvRow == [item : Services, timestamp : Timestamps, request_rate : CsvRates]

\* the CSV files of at most MaxCsvRows rows
RECURSIVE CsvFiles(_)
CsvFiles(n) ==
    IF n = 0 THEN {<<>>}
    ELSE LET shorter == CsvFiles(n - 1)
         IN  shorter \cup {Append(df, row) : df \in {f \in shorter : Len(f) = n - 1},
                                             row \in CsvRow}

\* df.dropna(subset=["timestamp", "request_rate"])
RECURSIVE dropna(_)
dropna(df) ==
    IF df = <<>> THEN <<>>
    ELSE IF Head(df).request_rate = None THEN dropna(Tail(df))
    ELSE <<Head(df)>> \o dropna(Tail(df))

\* (timestamp // CONTROL_INTERVAL) * CONTROL_INTERVAL, rounded to the nearest
\* multiple instead of down
to_time_bucket_Nearest(timestamp) ==
    ((timestamp + CONTROL_INTERVAL \div 2) \div CONTROL_INTERVAL) * CONTROL_INTERVAL

\* df["time_bucket"] = (df["timestamp"] // CONTROL_INTERVAL) * CONTROL_INTERVAL
to_time_bucket(timestamp) == (timestamp \div CONTROL_INTERVAL) * CONTROL_INTERVAL

\* ["request_rate"].sum() of the rows of one group
RECURSIVE sum(_, _, _)
sum(df, time_bucket, item) ==
    IF df = <<>> THEN 0
    ELSE (IF to_time_bucket(Head(df).timestamp) = time_bucket /\ Head(df).item = item
          THEN Head(df).request_rate[1] ELSE 0)
         + sum(Tail(df), time_bucket, item)

\* df.groupby(["time_bucket", "item"])["request_rate"].sum(): one row per group
groupby_sum(df) ==
    {[time_bucket |-> to_time_bucket(df[i].timestamp), item |-> df[i].item,
      total_rps |-> sum(df, to_time_bucket(df[i].timestamp), df[i].item)] :
        i \in DOMAIN df}

\* the order of sort_values(["time_bucket", "item"])
Precedes(r, q) ==
    \/ r.time_bucket < q.time_bucket
    \/ r.time_bucket = q.time_bucket /\ ItemOrder[r.item] < ItemOrder[q.item]

\* .sort_values(["time_bucket", "item"]).reset_index(drop=True)
RECURSIVE sort_values(_)
sort_values(rows) ==
    IF rows = {} THEN <<>>
    ELSE LET first == CHOOSE r \in rows : \A q \in rows : q = r \/ Precedes(r, q)
         IN  <<first>> \o sort_values(rows \ {first})

InitAggregate ==
    /\ driver = "aggregate"
    /\ InitIdle
    /\ \E df \in CsvFiles(MaxCsvRows) :
          probe = [applied |-> FALSE, df |-> df, grouped |-> <<>>]

\* main up to its loop: the CSV is read, cleaned, bucketed, grouped and sorted
Aggregate ==
    /\ driver = "aggregate" /\ pc = "idle"
    /\ pc' = "loop"
    /\ probe' = [probe EXCEPT !.applied = TRUE,
                              !.grouped = sort_values(groupby_sum(dropna(probe.df)))]
    /\ UNCHANGED <<driver, service_states, batch_vars, live_vars, last_call,
                   applied_times>>

\* one iteration of `for _, row in grouped.iterrows()`, on the next row
GroupedRow ==
    /\ driver = "aggregate" /\ pc = "loop"
    /\ Len(events) < Len(probe.grouped)
    /\ LET row == probe.grouped[Len(events) + 1]
           service == row.item
           call == main_row(Lookup(service_states, service, ServiceState),
                            row.time_bucket, row.total_rps)
           scaled == call.outcome \in {"UPSCALE", "DOWNSCALE"}
       IN  /\ service_states' = Store(service_states, service, call.state)
           /\ last_call' = [service |-> service, desired |-> call.desired,
                            can_scale |-> call.can_scale, outcome |-> call.outcome]
           /\ stats' =
                [total_scales |-> count_total_scales(stats.total_scales, call.outcome),
                 upscales |-> stats.upscales + IF call.outcome = "UPSCALE" THEN 1 ELSE 0,
                 downscales |-> stats.downscales
                                  + IF call.outcome = "DOWNSCALE" THEN 1 ELSE 0,
                 cooldown_blocks |-> stats.cooldown_blocks
                                  + IF call.outcome = "BLOCKED" THEN 1 ELSE 0]
           /\ events' = Append(events,
                [time_bucket |-> row.time_bucket, service |-> service,
                 raw_rps |-> row.total_rps, smoothed_rps |-> call.state.smoothed_rps,
                 prev_replicas |-> Lookup(service_states, service,
                                          ServiceState).current_replicas,
                 new_replicas |-> call.state.current_replicas,
                 action |-> call.outcome])
           /\ applied_times' =
                IF scaled
                THEN [applied_times EXCEPT ![service] = Append(@, row.time_bucket)]
                ELSE applied_times
    /\ UNCHANGED <<driver, pc, live_vars, probe>>

\* `grouped` is exhausted: the results are saved and the summary printed
AggregateFinish ==
    /\ driver = "aggregate" /\ pc = "loop"
    /\ Len(events) = Len(probe.grouped)
    /\ pc' = "done"
    /\ UNCHANGED <<driver, service_states, batch_vars, live_vars, last_call,
                   applied_times, probe>>

NextAggregate == Aggregate \/ GroupedRow \/ AggregateFinish

SpecAggregate == InitAggregate /\ [][NextAggregate]_vars

\* ------------------------- both drivers, fed the same times and the same rates

\* rates fed to both engines, in requests per second
LockstepRates == {2, 5, 15, 120}

\* seconds from one step to the next
LockstepIntervals == {10, Config_METRICS_QUERY_INTERVAL, Config_COOLDOWN_PERIOD}

\* the time of the first step: the first bucket of a CSV file, or the wall clock
LockstepStarts == {0, EpochNow}

\* what a step of a driver leaves, and what it decided
Outcome(call, before) ==
    [smoothed_rps |-> call.state.smoothed_rps, desired |-> call.desired,
     can_scale |-> call.can_scale, outcome |-> call.outcome,
     prev_replicas |-> before.current_replicas,
     current_replicas |-> call.state.current_replicas,
     last_scale_time |-> call.state.last_scale_time]

InitLockstep ==
    /\ driver = "lockstep"
    /\ InitIdle
    /\ \E start \in LockstepStarts :
          probe = [applied |-> FALSE, batch |-> ServiceState,
                   live |-> Live_ServiceState(""), now |-> start, trace |-> <<>>]

\* the loop body of reactivemodel.main on a row (now, a, raw_rps), and
\* process_service("a") at time now when the metrics source reports raw_rps, the
\* control plane reports the count the driver knows, and scale_deployment
\* succeeds; the next step is `interval` later
Step(raw_rps, interval) ==
    /\ driver = "lockstep"
    /\ Len(probe.trace) < MaxSteps
    /\ LET batch == main_row(probe.batch, probe.now, raw_rps)
           live == process_service(probe.live, "a", Some(raw_rps),
                                   Some(probe.live.current_replicas), TRUE,
                                   probe.now, probe.now)
       IN  probe' = [applied |-> TRUE, batch |-> batch.state, live |-> live.state,
                     now |-> probe.now + interval,
                     trace |-> Append(probe.trace,
                        [now |-> probe.now, raw_rps |-> raw_rps,
                         batch |-> Outcome(batch, probe.batch),
                         live |-> Outcome(live, probe.live)])]
    /\ UNCHANGED <<driver, driver_vars>>

NextLockstep ==
    \E r \in LockstepRates, interval \in LockstepIntervals : Step(AsRate(r), interval)

SpecLockstep == InitLockstep /\ [][NextLockstep]_vars

\* ------------------------------------------------------- the whole model

Init == InitBatch \/ InitLive \/ InitTarget \/ InitSmoothing \/ InitRetry
        \/ InitAggregate \/ InitLockstep

Next == NextBatch \/ NextLive \/ NextTarget \/ NextSmoothing \/ NextRetry
        \/ NextAggregate \/ NextLockstep

Spec == Init /\ [][Next]_vars

\* ------------------------------------------------------------- properties

Applied == driver = "target" /\ probe.applied

Min(S) == CHOOSE r \in S : \A q \in S : r <= q

\* C1: in both drivers, for every service, any two applied scaling actions have
\* last-scale timestamps that differ by at least COOLDOWN_PERIOD.
C1_CooldownSeparation ==
    \A s \in Services : \A i, j \in DOMAIN applied_times[s] :
        i < j => applied_times[s][j] - applied_times[s][i] >= COOLDOWN_PERIOD

\* the live driver has applied two scaling actions to one service
C1_TwoAppliedActions ==
    driver = "live" /\ \E s \in Services : Len(applied_times[s]) >= 2

\* C2: for every current replica count in [MIN_REPLICAS, MAX_REPLICAS] and every
\* non-negative rate, both target computations return a count, and it lies in
\* [MIN_REPLICAS, MAX_REPLICAS].
C2_Bounds ==
    (Applied /\ probe.current_replicas \in MIN_REPLICAS..MAX_REPLICAS /\ probe.x >= 0)
    => /\ ~probe.batch_x.raised
       /\ probe.batch_x.value \in MIN_REPLICAS..MAX_REPLICAS
       /\ ~probe.live_x.raised
       /\ probe.live_x.value \in Config_MIN_REPLICAS..Config_MAX_REPLICAS

\* C3: in every reachable state of both drivers, every service state's
\* current_replicas is within [MIN_REPLICAS, MAX_REPLICAS].
C3_ReplicasInRange ==
    \A s \in DOMAIN service_states :
        service_states[s].current_replicas \in MIN_REPLICAS..MAX_REPLICAS

\* C4: a decision is never blocked by the cooldown gate while no scaling action
\* has been applied to the service yet.
C4_FirstActionNotBlocked ==
    /\ (driver = "batch" /\ events # <<>> /\ events[Len(events)].action = "BLOCKED")
       => applied_times[events[Len(events)].service] # <<>>
    /\ (driver = "live" /\ last_call.outcome = "BLOCKED")
       => applied_times[last_call.service] # <<>>

\* C5: the smoothed value after the first sample is that sample, and after the
\* i-th sample it is ALPHA * s_i + (1 - ALPHA) * smoothed_(i-1), in both engines.
C5_SmoothingRecurrence ==
    driver = "smoothing" =>
        \A i \in DOMAIN probe.fed :
            LET f == probe.fed[i]
            IN  IF i = 1
                THEN f.batch = f.sample /\ f.live = f.sample
                ELSE /\ f.batch = Ema(EMA_ALPHA_NUM, EMA_ALPHA_DEN, f.sample,
                                      probe.fed[i - 1].batch)
                     /\ f.live = Ema(Config_EMA_ALPHA_NUM, Config_EMA_ALPHA_DEN, f.sample,
                                     probe.fed[i - 1].live)

\* the count the hysteresis rule prescribes for (c, x) under a threshold table
Prescribed(table, min, max, c, x) ==
    IF GE(x, table[c][1]) /\ c < max
    THEN LET above == {r \in (c + 1)..max : r \in DOMAIN table /\ LT(x, table[r][1])}
         IN  IF above = {} THEN max ELSE Min(above)
    ELSE IF LT(x, table[c][2]) /\ c > min
    THEN LET below == {r \in min..(c - 1) : GE(x, table[r][2]) \/ r = min}
         IN  CHOOSE r \in below : \A q \in below : q <= r
    ELSE c

\* C6: for every current replica count c in the threshold table and every rate x,
\* the target is: if x >= up[c] and c < MAX, the first r in c+1..MAX with
\* up[r] > x (MAX if none); otherwise if x < down[c] and c > MIN, the first r
\* from c-1 down to MIN with x >= down[r] or r = MIN; otherwise c.
C6_HysteresisTarget ==
    (Applied /\ probe.current_replicas \in DOMAIN RPS_THRESHOLDS)
    => /\ probe.batch_x = Return(Prescribed(RPS_THRESHOLDS, MIN_REPLICAS, MAX_REPLICAS,
                                            probe.current_replicas, probe.x))
       /\ probe.live_x = Return(Prescribed(Config_RPS_THRESHOLDS, Config_MIN_REPLICAS,
                                           Config_MAX_REPLICAS,
                                           probe.current_replicas, probe.x))

\* one decision has moved up by more than one level
C6_MultiLevelJump ==
    /\ Applied
    /\ ~probe.batch_x.raised
    /\ probe.batch_x.value >= probe.current_replicas + 2
    /\ probe.live_x = probe.batch_x

\* C7: a rate equal to down[c] never yields a count below c; a rate equal to
\* up[c], with c < MAX, always yields a count above c.
C7_BoundaryAsymmetry ==
    (Applied /\ probe.current_replicas \in DOMAIN RPS_THRESHOLDS)
    => LET c == probe.current_replicas
           up == RPS_THRESHOLDS[c][1]
           down == RPS_THRESHOLDS[c][2]
       IN  /\ probe.x = AsRate(down.v)
              => /\ ~probe.batch_x.raised /\ probe.batch_x.value >= c
                 /\ ~probe.live_x.raised /\ probe.live_x.value >= c
           /\ (~up.inf /\ probe.y = AsRate(up.v) /\ c < MAX_REPLICAS)
              => /\ ~probe.batch_y.raised /\ probe.batch_y.value > c
                 /\ ~probe.live_y.raised /\ probe.live_y.value > c

\* the target was computed at rate down[c] and at rate up[c], above MIN_REPLICAS
C7_AtBothBoundaries ==
    /\ Applied
    /\ probe.current_replicas \in DOMAIN RPS_THRESHOLDS
    /\ probe.current_replicas > MIN_REPLICAS
    /\ ~RPS_THRESHOLDS[probe.current_replicas][1].inf
    /\ probe.x = AsRate(RPS_THRESHOLDS[probe.current_replicas][2].v)
    /\ probe.y = AsRate(RPS_THRESHOLDS[probe.current_replicas][1].v)

\* C8: with current_replicas fixed at a level of the threshold table, for rates
\* x <= y the target for x is at most the target for y.
C8_Monotonicity ==
    (Applied /\ probe.current_replicas \in DOMAIN RPS_THRESHOLDS /\ probe.x <= probe.y)
    => /\ ~probe.batch_x.raised /\ ~probe.batch_y.raised
       /\ probe.batch_x.value <= probe.batch_y.value
       /\ ~probe.live_x.raised /\ ~probe.live_y.raised
       /\ probe.live_x.value <= probe.live_y.value

\* the lower rate scales down and the higher rate scales up
C8_DownAndUp ==
    /\ Applied
    /\ probe.current_replicas \in DOMAIN RPS_THRESHOLDS
    /\ probe.x < probe.y
    /\ probe.batch_x.value < probe.current_replicas
    /\ probe.current_replicas < probe.batch_y.value

\* x lies in the stable band [down[c], up[c]) of replica count c
InBand(table, c, x) == c \in DOMAIN table /\ GE(x, table[c][2]) /\ LT(x, table[c][1])

\* the target computation returns c for every rate in the stable band of c
C9_TargetStable ==
    (Applied /\ InBand(RPS_THRESHOLDS, probe.current_replicas, probe.x))
    => /\ probe.batch_x = Return(probe.current_replicas)
       /\ probe.live_x = Return(probe.current_replicas)

\* a batch row whose smoothed rate lies in the stable band of the service's
\* replica count changes neither the count, nor last_scale_time, nor the
\* counters of applied actions
C9_BatchStep ==
    (driver = "batch" /\ Len(events') = Len(events) + 1)
    => LET e == events'[Len(events')]
           old == Lookup(service_states, e.service, ServiceState)
           new == service_states'[e.service]
       IN  InBand(RPS_THRESHOLDS, old.current_replicas, e.smoothed_rps)
           => /\ e.action = "NO_CHANGE"
              /\ new.current_replicas = old.current_replicas
              /\ new.last_scale_time = old.last_scale_time
              /\ stats'.total_scales = stats.total_scales
              /\ stats'.upscales = stats.upscales
              /\ stats'.downscales = stats.downscales
              /\ applied_times' = applied_times

\* a process_service call whose smoothed rate lies in the stable band of the
\* replica count the control plane reports requests no change of that count
\* and changes neither last_scale_time nor the history of applied actions
C9_LiveStep ==
    (driver = "live" /\ calls' = calls + 1
        /\ last_call'.rps # None /\ last_call'.read # None)
    => LET service == last_call'.service
           old == Lookup(service_states, service, Live_ServiceState(""))
           new == service_states'[service]
           reported == last_call'.read[1]
       IN  InBand(Config_RPS_THRESHOLDS, reported, new.smoothed_rps)
           => /\ last_call'.outcome = "NO_CHANGE"
              /\ ~last_call'.actuated
              /\ k8s' = k8s
              /\ new.current_replicas = reported
              /\ new.last_scale_time = old.last_scale_time
              /\ new.scale_history = old.scale_history
              /\ applied_times' = applied_times

\* C9: for a rate x with down[c] <= x < up[c] the target computation returns c,
\* and a driver step whose smoothed rate is such a value for the current replica
\* count leaves the replica count, the last-scale timestamp and the counters of
\* applied actions unchanged.
C9_Stability == []C9_TargetStable /\ [][C9_BatchStep /\ C9_LiveStep]_vars

\* a service that was scaled up has then been left alone by an in-band rate
C9_StableAfterScaling ==
    /\ driver = "batch" /\ events # <<>>
    /\ LET e == events[Len(events)]
       IN  /\ e.action = "NO_CHANGE"
           /\ e.prev_replicas > MIN_REPLICAS
           /\ e.smoothed_rps # e.raw_rps
           /\ InBand(RPS_THRESHOLDS, e.prev_replicas, e.smoothed_rps)
           /\ applied_times[e.service] # <<>>

\* the gate permits every decision that asks for no change
C10_GatePermits ==
    (driver \in {"batch", "live"} /\ last_call.outcome = "NO_CHANGE")
    => last_call.can_scale = Some(TRUE)

\* a batch row that asks for no change leaves the count and last_scale_time alone
C10_BatchStep ==
    (driver = "batch" /\ Len(events') = Len(events) + 1
        /\ last_call'.desired = Some(Lookup(service_states, last_call'.service,
                                            ServiceState).current_replicas))
    => LET service == last_call'.service
           old == Lookup(service_states, service, ServiceState)
           new == service_states'[service]
       IN  /\ new.current_replicas = old.current_replicas
           /\ new.last_scale_time = old.last_scale_time
           /\ applied_times' = applied_times

\* a process_service call that asks for the count the control plane reports
\* leaves that count and last_scale_time alone
C10_LiveStep ==
    (driver = "live" /\ calls' = calls + 1 /\ last_call'.read # None
        /\ last_call'.desired = last_call'.read)
    => LET service == last_call'.service
           old == Lookup(service_states, service, Live_ServiceState(""))
           new == service_states'[service]
       IN  /\ new.current_replicas = last_call'.read[1]
           /\ new.last_scale_time = old.last_scale_time
           /\ k8s' = k8s
           /\ applied_times' = applied_times

\* C10: when desired == current_replicas the gate permits whatever the time
\* since the last action, and the step changes neither last_scale_time nor
\* current_replicas.
C10_GateNoOp == []C10_GatePermits /\ [][C10_BatchStep /\ C10_LiveStep]_vars

\* a no-change decision was taken inside the cooldown of an applied action
C10_NoChangeInCooldown ==
    /\ driver = "batch" /\ events # <<>>
    /\ LET e == events[Len(events)]
           state == service_states[e.service]
       IN  /\ e.action = "NO_CHANGE"
           /\ applied_times[e.service] # <<>>
           /\ e.time_bucket - state.last_scale_time < COOLDOWN_PERIOD

\* a batch row whose desired count differs from current_replicas: blocked
\* exactly inside the cooldown, and then the count and last_scale_time stay;
\* otherwise applied, and last_scale_time becomes the row's time
C11_BatchStep ==
    (driver = "batch" /\ Len(events') = Len(events) + 1
        /\ last_call'.desired # Some(Lookup(service_states, last_call'.service,
                                            ServiceState).current_replicas))
    => LET service == last_call'.service
           old == Lookup(service_states, service, ServiceState)
           new == service_states'[service]
           row == events'[Len(events')]
           now == row.time_bucket
           elapsed == now - old.last_scale_time
           blocked == row.action = "BLOCKED"
       IN  /\ blocked <=> elapsed < COOLDOWN_PERIOD
           /\ blocked <=> last_call'.can_scale = Some(FALSE)
           /\ blocked => /\ new.current_replicas = old.current_replicas
                         /\ new.last_scale_time = old.last_scale_time
                         /\ applied_times' = applied_times
           /\ elapsed >= COOLDOWN_PERIOD
                 => /\ row.action \in {"UPSCALE", "DOWNSCALE"}
                    /\ new.current_replicas = last_call'.desired[1]
                    /\ new.last_scale_time = now

\* C11: when desired != current_replicas the decision is blocked iff
\* now - last_scale_time < COOLDOWN_PERIOD; a blocked decision leaves
\* current_replicas and last_scale_time unchanged; a decision with elapsed >=
\* COOLDOWN_PERIOD, also exactly equal to it, is permitted and applied, and sets
\* last_scale_time to the current time.
C11_CooldownGate == [][C11_BatchStep]_vars

\* a change was blocked inside a cooldown, and a later change of the same
\* service was applied when exactly COOLDOWN_PERIOD had elapsed
C11_AppliedAtExactCooldown ==
    /\ driver = "batch" /\ events # <<>>
    /\ LET e == events[Len(events)]
           times == applied_times[e.service]
       IN  /\ e.action \in {"UPSCALE", "DOWNSCALE"}
           /\ Len(times) >= 2
           /\ times[Len(times)] = e.time_bucket
           /\ times[Len(times)] - times[Len(times) - 1] = COOLDOWN_PERIOD
           /\ \E i \in DOMAIN events :
                 /\ events[i].service = e.service
                 /\ events[i].action = "BLOCKED"
                 /\ events[i].time_bucket > times[Len(times) - 1]

\* a process_service call for which the metrics source returns no rate
\* leaves the mapping of service states and the control plane as they were
C12_LiveStep ==
    (driver = "live" /\ calls' = calls + 1 /\ last_call'.rps = None)
    => /\ service_states' = service_states
       /\ ~last_call'.actuated
       /\ k8s' = k8s
       /\ applied_times' = applied_times

\* C12: when the metrics source returns no rate for a service, process_service
\* mutates no state: the mapping of service states and every field of that
\* service's state are the same after the call as before it, and no actuation
\* is requested.
C12_AbsentMeasurementNoMutation == [][C12_LiveStep]_vars

\* a process_service call that got a rate but no replica count leaves the
\* fields of the service's state and the control plane as they were
C13_LiveStep ==
    (driver = "live" /\ calls' = calls + 1 /\ last_call'.rps # None
        /\ last_call'.read = None)
    => LET service == last_call'.service
           old == Lookup(service_states, service, Live_ServiceState(""))
           new == service_states'[service]
       IN  /\ ~last_call'.actuated
           /\ k8s' = k8s
           /\ new.raw_rps = old.raw_rps
           /\ new.smoothed_rps = old.smoothed_rps
           /\ new.current_replicas = old.current_replicas
           /\ new.last_scale_time = old.last_scale_time
           /\ new.scale_history = old.scale_history

\* C13: when a rate was fetched but the replica-count lookup of the control
\* plane fails, no scaling is attempted and the service's state (raw rate,
\* smoothed rate, current replicas, last-scale timestamp, history) is the same
\* after process_service as before it.
C13_LookupFailureNoMutation == [][C13_LiveStep]_vars

\* the call after a failed actuation asks for the same change again
C14_Retried(first, second) ==
    /\ second.desired = first.desired
    /\ second.can_scale = Some(TRUE)
    /\ second.actuated

\* what a failed actuation leaves: the count read from the control plane, and
\* the last_scale_time and the history of before the call
C14_FailureLeaves ==
    driver = "retry" =>
        \A i \in DOMAIN probe.trace :
            LET call == probe.trace[i]
            IN  call.outcome = "scale_failed"
                => /\ call.can_scale = Some(TRUE)
                   /\ call.after.current_replicas = call.read
                   /\ call.after.last_scale_time = call.before.last_scale_time
                   /\ call.after.scale_history = call.before.scale_history

C15_LiveStep ==
    (driver = "live" /\ calls' = calls + 1)
    => LET service == last_call'.service
       IN  /\ service = Head(queue)
           /\ queue' = Tail(queue)
           /\ pc' = "iterating"
           /\ \A s \in (DOMAIN service_states') \ {service} :
                 s \in DOMAIN service_states /\ service_states'[s] = service_states[s]
           /\ \A s \in Services \ {service} :
                 k8s'[s] = k8s[s] /\ applied_times'[s] = applied_times[s]

\* the for loop of control_loop_iteration ends only when every listed service
\* has been processed
C15_LoopEnds ==
    (driver = "live" /\ pc = "iterating" /\ pc' = "idle") => queue = <<>>

\* C15: within one control_loop_iteration an error raised while processing one
\* service (a replica count with no threshold-table entry included) does not
\* prevent process_service from being run for every other listed service, and
\* does not change the other services' states.
C15_FailureIsolation == [][C15_LiveStep /\ C15_LoopEnds]_vars

\* in one iteration the first service raised on a count that has no table
\* entry, and the second service was then scaled
C15_ScaledAfterRaise ==
    /\ driver = "live" /\ calls = 2 /\ loop_start = EpochNow /\ queue = <<>>
    /\ last_call.outcome = "UPSCALE"
    /\ \E s \in DOMAIN service_states :
          /\ s # last_call.service
          /\ service_states[s].current_replicas = MaxK8sReplicas
          /\ service_states[s].smoothed_rps > 0
          /\ service_states[s].scale_history = <<>>

\* a process_service call whose replica lookup succeeded computed its target
\* from the count it read, and ends with that count or with the count it set
C16_LiveStep ==
    (driver = "live" /\ calls' = calls + 1 /\ last_call'.rps # None
        /\ last_call'.read # None)
    => LET service == last_call'.service
           new == service_states'[service]
           read == last_call'.read[1]
           target == desired_replicas(read, new.smoothed_rps)
       IN  /\ read = k8s[service]
           /\ IF target.raised
              THEN last_call'.outcome = "raised" /\ new.current_replicas = read
              ELSE /\ last_call'.desired = Some(target.value)
                   /\ IF last_call'.outcome \in {"UPSCALE", "DOWNSCALE"}
                      THEN /\ new.current_replicas = target.value
                           /\ k8s'[service] = target.value
                      ELSE /\ new.current_replicas = read
                           /\ k8s'[service] = read

\* C16: whenever the replica lookup succeeds, the target is computed from the
\* replica count just read from the control plane, not from the locally cached
\* value, so a count changed by somebody else between two iterations is the
\* starting point of the next decision; after the step current_replicas equals
\* that read value or the successfully actuated desired value.
C16_Reconcile == [][C16_LiveStep]_vars

\* the driver had scaled a service, somebody else then set another count, and
\* the next call found nothing to change on that count
C16_DecidedFromExternalCount ==
    /\ driver = "live" /\ calls = 2
    /\ last_call.read # None /\ last_call.desired # None
    /\ LET state == service_states[last_call.service]
           cached == state.scale_history[1].to
       IN  /\ Len(state.scale_history) = 1
           /\ last_call.read[1] # cached
           /\ last_call.outcome = "NO_CHANGE"
           /\ last_call.desired = last_call.read
           /\ state.current_replicas = last_call.read[1]

\* the rows of the CSV file that have a rate
C17_Rows == {i \in DOMAIN probe.df : probe.df[i].request_rate # None}

\* the bucket of row i of the CSV file
C17_Bucket(i) == (probe.df[i].timestamp \div CONTROL_INTERVAL) * CONTROL_INTERVAL

\* the (bucket, entity) pairs of the CSV file
C17_Pairs == {<<C17_Bucket(i), probe.df[i].item>> : i \in C17_Rows}

\* the sum of the rates of the rows `rows` that belong to a pair
RECURSIVE C17_Total(_, _, _)
C17_Total(rows, bucket, entity) ==
    IF rows = {} THEN 0
    ELSE LET i == CHOOSE r \in rows : TRUE
         IN  (IF C17_Bucket(i) = bucket /\ probe.df[i].item = entity
              THEN probe.df[i].request_rate[1] ELSE 0)
             + C17_Total(rows \ {i}, bucket, entity)

\* the last of the rows `rows`
C17_Last(rows) == CHOOSE i \in rows : \A j \in rows : j <= i

\* C17: input rows are bucketed by (timestamp // CONTROL_INTERVAL) *
\* CONTROL_INTERVAL; for each (bucket, entity) pair the engine is invoked exactly
\* once, with the sum of the rates of all rows of that pair; pairs are processed
\* in ascending (bucket, entity) order; exactly one result row is emitted per pair.
C17_AggregationAndOrder ==
    (driver = "aggregate" /\ pc \in {"loop", "done"})
    => /\ \A i \in DOMAIN events :
             /\ <<events[i].time_bucket, events[i].service>> \in C17_Pairs
             /\ events[i].raw_rps
                   = C17_Total(C17_Rows, events[i].time_bucket, events[i].service)
       /\ \A i, j \in DOMAIN events :
             i < j => \/ events[i].time_bucket < events[j].time_bucket
                      \/ /\ events[i].time_bucket = events[j].time_bucket
                         /\ ItemOrder[events[i].service] < ItemOrder[events[j].service]
       /\ \A s \in Services :
             LET mine == {i \in DOMAIN events : events[i].service = s}
                 state == Lookup(service_states, s, ServiceState)
             IN  /\ Len(state.scale_history) = Cardinality(mine)
                 /\ mine # {} => state.raw_rps = events[C17_Last(mine)].raw_rps
       /\ pc = "done"
             => {<<events[i].time_bucket, events[i].service>> : i \in DOMAIN events}
                   = C17_Pairs

\* a CSV file whose rows are not in time order and two of which, with
\* different rates, fall into one bucket of one service, has been processed
C17_SummedAndSorted ==
    /\ driver = "aggregate" /\ pc = "done"
    /\ Len(probe.df) = 3 /\ C17_Rows = 1..3
    /\ probe.df[1].timestamp = 40 /\ probe.df[2].timestamp = 10
    /\ probe.df[3].timestamp = 29
    /\ probe.df[2].item = probe.df[3].item
    /\ probe.df[2].request_rate # probe.df[3].request_rate
    /\ Len(events) = 2
    /\ events[1].time_bucket = 0
    /\ events[1].raw_rps = probe.df[2].request_rate[1] + probe.df[3].request_rate[1]
    /\ events[2].time_bucket = CONTROL_INTERVAL

\* the steps so far are the first steps of scenario A-B-C, on the wall clock:
\* raw 15 at t, raw 5 at t + 10, raw 2 at t + 70
C18_Scenario == <<[now |-> EpochNow, raw_rps |-> AsRate(15)],
                  [now |-> EpochNow + 10, raw_rps |-> AsRate(5)],
                  [now |-> EpochNow + 70, raw_rps |-> AsRate(2)]>>

C18_Followed(n) ==
    /\ driver = "lockstep" /\ Len(probe.trace) >= n
    /\ \A i \in 1..n : /\ probe.trace[i].now = C18_Scenario[i].now
                       /\ probe.trace[i].raw_rps = C18_Scenario[i].raw_rps

\* C18: with the table {1:(10,0),2:(30,8),3:(60,25),4:(100,50),5:(inf,90)},
\* alpha 0.7, cooldown 60 and a fresh service at 1 replica, the live engine fed
\* raw 15 at t, raw 5 at t + 10 and raw 2 at t + 70 applies a scale-up 1 -> 2 at
\* t, takes a stable decision (no scale-down attempted) at t + 10, and applies a
\* scale-down 2 -> 1 at t + 70.
C18_Trajectory ==
    /\ C18_Followed(1)
          => LET A == probe.trace[1].live
             IN  /\ A.outcome = "UPSCALE"
                 /\ A.prev_replicas = 1 /\ A.current_replicas = 2
                 /\ A.last_scale_time = EpochNow
    /\ C18_Followed(2)
          => LET B == probe.trace[2].live
             IN  /\ B.outcome = "NO_CHANGE"
                 /\ B.desired = Some(2)
                 /\ B.current_replicas = 2
                 /\ B.last_scale_time = EpochNow
    /\ C18_Followed(3)
          => LET C == probe.trace[3].live
             IN  /\ C.outcome = "DOWNSCALE"
                 /\ C.can_scale = Some(TRUE)
                 /\ C.prev_replicas = 2 /\ C.current_replicas = 1
                 /\ C.last_scale_time = EpochNow + 70

\* scenario A-B-C has been played to its end
C18_ScenarioPlayed == C18_Followed(3)

\* the samples 15, 5, 2 have been fed, in that order, to a fresh service
C19_ScenarioFed ==
    /\ driver = "smoothing" /\ Len(probe.fed) = 3
    /\ probe.fed[1].sample = AsRate(15)
    /\ probe.fed[2].sample = AsRate(5)
    /\ probe.fed[3].sample = AsRate(2)

\* C19 as stated: with alpha 0.7 and a fresh service, the samples 15, 5, 2 fed
\* in that order to the smoothing update yield the smoothed values 15, then
\* 8.0, then 3.4.
C19_SmoothedValuesAsStated ==
    C19_ScenarioFed
    => /\ probe.fed[1].live = AsRate(15)
       /\ probe.fed[2].live = AsRate(8)
       /\ probe.fed[3].live = AsRate(34) \div 10

\* C19, amended: with alpha 0.7 and a fresh service, the samples 15, 5, 2 fed in
\* that order to the smoothing update yield the smoothed values 15, then 8.0,
\* then 3.8 (0.7 * 2 + 0.3 * 8.0).
C19_SmoothedValues ==
    C19_ScenarioFed
    => /\ probe.fed[1].live = AsRate(15)
       /\ probe.fed[2].live = AsRate(8)
       /\ probe.fed[3].live = AsRate(38) \div 10
       /\ probe.live.smoothed_rps = AsRate(38) \div 10

\* C20: the live engine and the batch engine, started from equal service states
\* and fed the same sequence of (time, sample) inputs, with every actuation
\* succeeding and no replica change by anybody else, produce at every step the
\* same smoothed rate, the same desired count, the same permit/block verdict,
\* and the same resulting current_replicas and last-scale time.
C20_EngineEquivalence ==
    driver = "lockstep" =>
        /\ \A i \in DOMAIN probe.trace :
              LET batch == probe.trace[i].batch
                  live == probe.trace[i].live
              IN  /\ live.smoothed_rps = batch.smoothed_rps
                  /\ live.desired = batch.desired
                  /\ live.can_scale = batch.can_scale
                  /\ live.outcome = batch.outcome
                  /\ live.current_replicas = batch.current_replicas
                  /\ live.last_scale_time = batch.last_scale_time
        /\ probe.live.smoothed_rps = probe.batch.smoothed_rps
        /\ probe.live.raw_rps = probe.batch.raw_rps
        /\ probe.live.current_replicas = probe.batch.current_replicas
        /\ probe.live.last_scale_time = probe.batch.last_scale_time

\* both engines have blocked a change, applied one when exactly COOLDOWN_PERIOD
\* had passed since last_scale_time, and found nothing to change
C20_BlockedAppliedStable ==
    /\ driver = "lockstep"
    /\ \E i, j, k \in DOMAIN probe.trace :
          /\ probe.trace[i].live.outcome = "BLOCKED"
          /\ probe.trace[j].batch.outcome \in {"UPSCALE", "DOWNSCALE"}
          /\ probe.trace[j].now - probe.trace[j].batch.last_scale_time = 0
          /\ j > 1
          /\ probe.trace[j].now - probe.trace[j - 1].batch.last_scale_time
                = COOLDOWN_PERIOD
          /\ probe.trace[k].live.outcome = "NO_CHANGE"

\* both target computations have been applied to (c, x) and then to (d, x)
C21_AppliedAgain ==
    /\ Applied
    /\ "batch_again" \in DOMAIN probe
    /\ probe.current_replicas \in DOMAIN RPS_THRESHOLDS

\* d is a stable level for x: x lies in its band, or d is a clamp at min or max
C21_Lands(table, min, max, d, x) == InBand(table, d, x) \/ d = min \/ d = max

\* C21: for every current replica count c in the threshold table and every
\* non-negative finite rate x, the desired count d returned for (c, x)
\* satisfies down[d] <= x < up[d] or is a clamp at MIN/MAX, and a second target
\* computation for (d, x) returns d again.
C21_FixedPoint ==
    C21_AppliedAgain
    => /\ C21_Lands(RPS_THRESHOLDS, MIN_REPLICAS, MAX_REPLICAS,
                    probe.batch_x.value, probe.x)
       /\ probe.batch_again = probe.batch_x
       /\ C21_Lands(Config_RPS_THRESHOLDS, Config_MIN_REPLICAS, Config_MAX_REPLICAS,
                    probe.live_x.value, probe.x)
       /\ probe.live_again = probe.live_x

\* a decision that moved down by more than one level has been computed again
\* for the level it chose, at a rate on that level's scale-down threshold
C21_JumpLanded ==
    /\ C21_AppliedAgain
    /\ probe.live_x.value + 2 <= probe.current_replicas
    /\ probe.live_x.value > Config_MIN_REPLICAS
    /\ probe.x = AsRate(Config_RPS_THRESHOLDS[probe.live_x.value][2].v)
    /\ probe.live_again = probe.live_x
    /\ probe.batch_again = probe.batch_x

\* the result rows of service s
C22_RowsOf(s) == {i \in DOMAIN events : events[i].service = s}

\* the aggregated rate of service s is the same in every bucket so far
C22_ConstantRate(s) ==
    /\ driver = "batch"
    /\ C22_RowsOf(s) # {}
    /\ \A i, j \in C22_RowsOf(s) : events[i].raw_rps = events[j].raw_rps

C22_AppliedRows(s) ==
    {i \in C22_RowsOf(s) : events[i].action \in {"UPSCALE", "DOWNSCALE"}}

\* C22: in the batch driver, if one entity's aggregated rate is the same value
\* x in every bucket, then at most one scaling action is ever applied for that
\* entity, it is applied no later than the first bucket at which the cooldown
\* gate permits, and from then on current_replicas equals the target for x and
\* every later row is NO_CHANGE.
C22_Convergence ==
    \A s \in Services :
        C22_ConstantRate(s)
        => LET rows == C22_RowsOf(s)
               x == events[Min(rows)].raw_rps
               target == Prescribed(RPS_THRESHOLDS, MIN_REPLICAS, MAX_REPLICAS,
                                    ServiceState.current_replicas, x)
           IN  /\ Cardinality(C22_AppliedRows(s)) <= 1
               /\ \A i \in rows :
                     IF \E j \in C22_AppliedRows(s) : j < i
                     THEN /\ events[i].action = "NO_CHANGE"
                          /\ events[i].new_replicas = target
                          /\ InBand(RPS_THRESHOLDS, target, x)
                     ELSE /\ events[i].prev_replicas = ServiceState.current_replicas
                          /\ (/\ target # events[i].prev_replicas
                              /\ events[i].time_bucket - ServiceState.last_scale_time
                                    >= COOLDOWN_PERIOD)
                                => /\ i \in C22_AppliedRows(s)
                                   /\ events[i].new_replicas = target
               /\ service_states[s].current_replicas
                     = IF C22_AppliedRows(s) = {} THEN ServiceState.current_replicas
                       ELSE target

\* at a constant rate a service was blocked inside the initial cooldown, then
\* scaled up by more than one level, and has stayed there since
C22_BlockedScaledSettled ==
    /\ driver = "batch"
    /\ \E s \in Services :
          /\ C22_ConstantRate(s)
          /\ \E i, j, k \in C22_RowsOf(s) :
                /\ i < j /\ j < k
                /\ events[i].action = "BLOCKED"
                /\ events[j].action = "UPSCALE"
                /\ events[j].new_replicas >= events[j].prev_replicas + 2
                /\ events[k].action = "NO_CHANGE"

\* the rows emitted so far that carry this action
C23_Rows(action) == {i \in DOMAIN events : events[i].action = action}

\* the counters agree with each other and with the rows, and every row's
\* action agrees with its replica counts
C23_RowsAndCounters ==
    driver = "batch"
    => /\ stats.total_scales = stats.upscales + stats.downscales
       /\ Len(events) = stats.upscales + stats.downscales + stats.cooldown_blocks
                           + Cardinality(C23_Rows("NO_CHANGE"))
       /\ stats.upscales = Cardinality(C23_Rows("UPSCALE"))
       /\ stats.downscales = Cardinality(C23_Rows("DOWNSCALE"))
       /\ stats.cooldown_blocks = Cardinality(C23_Rows("BLOCKED"))
       /\ \A i \in DOMAIN events :
             LET e == events[i]
             IN  /\ e.action \in {"UPSCALE", "DOWNSCALE", "BLOCKED", "NO_CHANGE"}
                 /\ e.action = "UPSCALE" <=> e.new_replicas > e.prev_replicas
                 /\ e.action = "DOWNSCALE" <=> e.new_replicas < e.prev_replicas
                 /\ e.action \in {"BLOCKED", "NO_CHANGE"}
                       => e.new_replicas = e.prev_replicas

\* a row changes last_scale_time of its service only if it is an UPSCALE or a
\* DOWNSCALE row, and of no other service
C23_BatchStep ==
    (driver = "batch" /\ Len(events') = Len(events) + 1)
    => LET e == events'[Len(events')]
       IN  /\ \A s \in DOMAIN service_states' :
                 service_states'[s].last_scale_time
                       # Lookup(service_states, s, ServiceState).last_scale_time
                 => s = e.service /\ e.action \in {"UPSCALE", "DOWNSCALE"}
           /\ Len(events') = Len(events) + 1
           /\ \A i \in DOMAIN events : events'[i] = events[i]

\* C23: after any prefix of the batch run, total_scales == upscales + downscales
\* and the number of emitted rows == upscales + downscales + cooldown_blocks +
\* the number of NO_CHANGE rows; in every emitted row the action is UPSCALE iff
\* new_replicas > prev_replicas, DOWNSCALE iff new_replicas < prev_replicas, and
\* BLOCKED or NO_CHANGE only if new_replicas == prev_replicas; last_scale_time
\* changes only on UPSCALE/DOWNSCALE rows.
C23_ResultConsistency == []C23_RowsAndCounters /\ [][C23_BatchStep]_vars

\* a run has emitted a row of each of the four kinds
C23_AllFourActions ==
    /\ driver = "batch"
    /\ stats.upscales >= 1 /\ stats.downscales >= 1 /\ stats.cooldown_blocks >= 1
    /\ C23_Rows("NO_CHANGE") # {}

====
